---------------------------- MODULE Spec2Model ----------------------------
(***************************************************************************)
(* A model of the two stateful helpers of utils.py: Config (a JSON-backed  *)
(* attribute store) and Logger (a running-average logger).                 *)
(*                                                                         *)
(* Text is modelled as a sequence of lexemes (strings): a file's content,  *)
(* what print() emitted and what json produces are all sequences of        *)
(* lexemes, so that formatting and parsing are real conversions.           *)
(***************************************************************************)
EXTENDS Integers, Sequences, FiniteSets, TLC

VARIABLES
    \* ---- Logger (utils.py:126-152)
    opened,      \* TRUE once Logger.__init__ has run
    log_file,    \* the text held by the file self.log_file writes to
    infos,       \* self.infos: insertion-ordered, a sequence of [key, vals]
    since,       \* history: the (key, val) arguments of the append calls made
                 \* since the last log call that returned, in call order
    torch_long,  \* what Tensor.mean() does on an int64 tensor in the
                 \* installed torch: "truncate" or "raise"
    io_faults,   \* how many calls have met an I/O error so far
    \* ---- Config (utils.py:98-123)
    attrs,       \* vars(self): insertion-ordered, a sequence of [k, v]
    dirs,        \* the directories that exist
    files,       \* the regular files that exist: path -> content
    loaded,      \* the store the last Config.load returned, or NoStore
    \* ---- both
    stdout,      \* what print() has emitted
    ncalls,      \* how many calls have been made on the object
    ret          \* the last call: its name, arguments and outcome

vars == <<opened, log_file, infos, stdout, since, torch_long, io_faults,
          ncalls, attrs, dirs, files, loaded, ret>>

configVars == <<attrs, dirs, files, loaded>>

(***************************************************************************)
(* Bounds of the model.                                                    *)
(***************************************************************************)
MaxCalls == 4

MaxFaults == 1

MaxConfigCalls == 3

(***************************************************************************)
(* Sequence helpers.                                                       *)
(***************************************************************************)
RECURSIVE SumSeq(_)
SumSeq(s) == IF s = <<>> THEN 0 ELSE Head(s) + SumSeq(Tail(s))

RECURSIVE Flatten(_)
Flatten(ss) == IF ss = <<>> THEN <<>> ELSE Head(ss) \o Flatten(Tail(ss))

IsPrefix(s, t) == Len(s) <= Len(t) /\ SubSeq(t, 1, Len(s)) = s

Range(s) == {s[i] : i \in 1..Len(s)}

(***************************************************************************)
(* Logger: the values a caller appends.  A sample is a Python number: an   *)
(* int or a float; the floats of the model are whole numbers (1.0, 2.0),   *)
(* so that a mean has at most a few significant digits and float32 holds   *)
(* its six printed decimals exactly.                                       *)
(***************************************************************************)
Keys == {"a", "b"}

Samples == {[kind |-> "int", n |-> 1], [kind |-> "int", n |-> 2],
            [kind |-> "float", n |-> 1], [kind |-> "float", n |-> 2]}

Delimiters == {"\n", ", "}

Messages == {<<"epoch", " ", "1">>}

PriorContents == {<<>>, <<"stale", "\n">>}

Micro == 1000000

DigitChars == <<"0", "1", "2", "3", "4", "5", "6", "7", "8", "9">>

RECURSIVE Digits(_)
Digits(n) == IF n < 10 THEN <<DigitChars[n + 1]>>
             ELSE Digits(n \div 10) \o <<DigitChars[(n % 10) + 1]>>

RECURSIVE PadDigits(_, _)
PadDigits(n, width) ==
    IF width = 0 THEN <<>>
    ELSE PadDigits(n \div 10, width - 1) \o <<DigitChars[(n % 10) + 1]>>

\* "%.6f" % x, for x >= 0 given in millionths
Format6f(micro) ==
    Digits(micro \div Micro) \o <<".">> \o PadDigits(micro % Micro, 6)

\* torch.tensor(vals): int64 when every element is a Python int, else float32
TensorDtype(vals) ==
    IF \A i \in 1..Len(vals) : vals[i].kind = "int" THEN "int64" ELSE "float32"

\* torch.tensor(vals).mean().item(), in millionths, or the error it raises.
\* On an int64 tensor the installed torch either refuses or divides in
\* integers; on a float32 tensor the quotient is rounded to the nearest
\* millionth, as "%.6f" prints it.
TensorMean(vals, long_mean) ==
    LET total == SumSeq([i \in 1..Len(vals) |-> vals[i].n])
        count == Len(vals)
    IN  IF TensorDtype(vals) = "int64"
        THEN IF long_mean = "raise"
             THEN [raised |-> TRUE, micro |-> 0]
             ELSE [raised |-> FALSE, micro |-> (total \div count) * Micro]
        ELSE [raised |-> FALSE,
              micro |-> (2 * total * Micro + count) \div (2 * count)]

\* A variant of append that moves the key to the end of the dict on every
\* call, as OrderedDict.move_to_end would: C4 must fail under it.
SetDefaultAppendMoveToEnd(d, key, val) ==
    LET kept == SelectSeq(d, LAMBDA e : e.key # key)
        old  == SelectSeq(d, LAMBDA e : e.key = key)
        vals == IF old = <<>> THEN <<>> ELSE old[1].vals
    IN  Append(kept, [key |-> key, vals |-> Append(vals, val)])

\* vals = self.infos.setdefault(key, []); vals.append(val)
SetDefaultAppend(d, key, val) ==
    IF \E i \in 1..Len(d) : d[i].key = key
    THEN [i \in 1..Len(d) |->
             IF d[i].key = key
             THEN [key |-> key, vals |-> Append(d[i].vals, val)]
             ELSE d[i]]
    ELSE Append(d, [key |-> key, vals |-> <<val>>])

\* the loop of Logger.log: one "%s %.6f" message per item of self.infos, in
\* the dict's order, or the error of the first mean() that raises
LogMessages(d, long_mean) ==
    LET means == [i \in 1..Len(d) |-> TensorMean(d[i].vals, long_mean)]
    IN  [raised |-> \E i \in 1..Len(d) : means[i].raised,
         msgs |-> [i \in 1..Len(d) |->
                      <<d[i].key, " ">> \o Format6f(means[i].micro)]]

\* delimiter.join(msgs)
RECURSIVE Join(_, _)
Join(delimiter, msgs) ==
    IF msgs = <<>> THEN <<>>
    ELSE IF Len(msgs) = 1 THEN msgs[1]
    ELSE msgs[1] \o <<delimiter>> \o Join(delimiter, Tail(msgs))

\* Two variants of the reset of self.infos in Logger.log: one that resets
\* before the write (C10 must fail under it), one that never resets (C3 must
\* fail under it).
InfosResetFirst(d, reached_reset) == <<>>

InfosNeverReset(d, reached_reset) == d

\* self.infos after Logger.log: line 146 replaces it once the write and the
\* flush have returned, and only then
InfosAfterLog(d, reached_reset) == IF reached_reset THEN <<>> ELSE d

\* A variant that opens with mode 'a': C9 must fail under it.
OpenAppending(prior) == prior

\* open(output_name, 'w')
OpenForWriting(prior) == <<>>

\* self.log_file.write(text); self.log_file.flush().  fault names the call
\* that raises: "none", "write" (nothing reaches the file object) or "flush"
\* (the text is in the file object and the flush raises).
WriteAndFlush(content, text, fault) ==
    IF fault = "write" THEN content ELSE content \o text

IOFaults == {"none", "write", "flush"}

NoCall == [op |-> "none", status |-> "ok", key |-> "", delimiter |-> "",
           out |-> <<>>, path |-> <<>>]

Call(op, status, out) ==
    [NoCall EXCEPT !.op = op, !.status = status, !.out = out]

(***************************************************************************)
(* Logger: the operations.                                                 *)
(***************************************************************************)
LoggerInit ==
    /\ opened = FALSE
    /\ log_file \in PriorContents
    /\ infos = <<>>
    /\ stdout = <<>>
    /\ since = <<>>
    /\ torch_long \in {"truncate", "raise"}
    /\ io_faults = 0
    /\ ncalls = 0
    /\ ret = NoCall
    /\ attrs = <<>>
    /\ dirs = {}
    /\ files = <<>>
    /\ loaded = [bound |-> FALSE, attrs |-> <<>>]

\* Logger.__init__(output_name)
Construct ==
    /\ ~opened
    /\ opened' = TRUE
    /\ log_file' = OpenForWriting(log_file)
    /\ infos' = <<>>
    /\ since' = <<>>
    /\ ret' = Call("init", "ok", <<>>)
    /\ UNCHANGED <<stdout, torch_long, io_faults, ncalls>>
    /\ UNCHANGED configVars

\* Logger.append(key, val)
LoggerAppend(key, val) ==
    /\ opened
    /\ ncalls < MaxCalls
    /\ infos' = SetDefaultAppend(infos, key, val)
    /\ since' = Append(since, [key |-> key, val |-> val])
    /\ ncalls' = ncalls + 1
    /\ ret' = [Call("append", "ok", <<>>) EXCEPT !.key = key]
    /\ UNCHANGED <<opened, log_file, stdout, torch_long, io_faults>>
    /\ UNCHANGED configVars

\* Logger.log(delimiter=...)
LoggerLog(delimiter, fault) ==
    LET r       == LogMessages(infos, torch_long)
        msg     == Join(delimiter, r.msgs)
        status  == IF r.raised THEN "RuntimeError"
                   ELSE IF fault # "none" THEN "OSError" ELSE "ok"
        reached == status = "ok"
    IN  /\ opened
        /\ ncalls < MaxCalls
        /\ r.raised => fault = "none"
        /\ fault # "none" => io_faults < MaxFaults
        /\ log_file' = IF r.raised THEN log_file
                       ELSE WriteAndFlush(log_file, msg \o <<"\n">>, fault)
        /\ infos' = InfosAfterLog(infos, reached)
        /\ stdout' = IF reached THEN stdout \o msg \o <<"\n">> ELSE stdout
        /\ since' = IF reached THEN <<>> ELSE since
        /\ io_faults' = IF status = "OSError" THEN io_faults + 1 ELSE io_faults
        /\ ncalls' = ncalls + 1
        /\ ret' = [Call("log", status, IF r.raised THEN <<>> ELSE msg)
                      EXCEPT !.delimiter = delimiter]
        /\ UNCHANGED <<opened, torch_long>>
        /\ UNCHANGED configVars

\* A variant of write that also replaces self.infos, as log does: C5 must
\* fail under it.
LoggerWriteClearing(msg, fault) ==
    /\ opened
    /\ ncalls < MaxCalls
    /\ fault # "none" => io_faults < MaxFaults
    /\ log_file' = WriteAndFlush(log_file, msg \o <<"\n">>, fault)
    /\ infos' = <<>>
    /\ stdout' = IF fault = "none" THEN stdout \o msg \o <<"\n">> ELSE stdout
    /\ io_faults' = IF fault # "none" THEN io_faults + 1 ELSE io_faults
    /\ ncalls' = ncalls + 1
    /\ ret' = Call("write", IF fault # "none" THEN "OSError" ELSE "ok", msg)
    /\ UNCHANGED <<opened, since, torch_long>>
    /\ UNCHANGED configVars

\* Logger.write(msg)
LoggerWrite(msg, fault) ==
    /\ opened
    /\ ncalls < MaxCalls
    /\ fault # "none" => io_faults < MaxFaults
    /\ log_file' = WriteAndFlush(log_file, msg \o <<"\n">>, fault)
    /\ stdout' = IF fault = "none" THEN stdout \o msg \o <<"\n">> ELSE stdout
    /\ io_faults' = IF fault # "none" THEN io_faults + 1 ELSE io_faults
    /\ ncalls' = ncalls + 1
    /\ ret' = Call("write", IF fault # "none" THEN "OSError" ELSE "ok", msg)
    /\ UNCHANGED <<opened, infos, since, torch_long>>
    /\ UNCHANGED configVars

DoAppend == \E key \in Keys, val \in Samples : LoggerAppend(key, val)

DoLog == \E delimiter \in Delimiters, fault \in IOFaults :
             LoggerLog(delimiter, fault)

DoWrite == \E msg \in Messages, fault \in IOFaults : LoggerWrite(msg, fault)

LoggerNext == Construct \/ DoAppend \/ DoLog \/ DoWrite

SpecLogger == LoggerInit /\ [][LoggerNext]_vars

(***************************************************************************)
(* Logger: what the claims speak of.  A step of the model is one call; the *)
(* call is named by ret' and counted by ncalls.  A postcondition of a call *)
(* is a statement about the calls that return: a call that raises is the   *)
(* subject of C10.                                                         *)
(***************************************************************************)
IsCall(op) == ret'.op = op /\ ncalls' = ncalls + 1

Returned(op) == IsCall(op) /\ ret'.status = "ok"

\* the keys of a history of appends, each once, in the order of its first
\* append
RECURSIVE FirstSeen(_)
FirstSeen(h) ==
    IF h = <<>> THEN <<>>
    ELSE LET rest == FirstSeen(SubSeq(h, 1, Len(h) - 1))
             k    == h[Len(h)].key
         IN  IF k \in Range(rest) THEN rest ELSE Append(rest, k)

\* the values a history of appends gave to key, in call order
ValuesOf(h, key) ==
    LET mine == SelectSeq(h, LAMBDA e : e.key = key)
    IN  [i \in 1..Len(mine) |-> mine[i].val]

\* the arithmetic mean of the numbers of vals, rounded to the millionth
ArithmeticMean(vals) ==
    LET total == SumSeq([i \in 1..Len(vals) |-> vals[i].n])
    IN  (2 * total * Micro + Len(vals)) \div (2 * Len(vals))

\* the block the claims describe for a history of appends: one entry
\* "<key> <mean>" per key, in first-append order, joined by the delimiter
MeanBlock(h, delimiter) ==
    LET ks == FirstSeen(h)
    IN  Join(delimiter,
             [i \in 1..Len(ks) |->
                 <<ks[i], " ">> \o Format6f(ArithmeticMean(ValuesOf(h, ks[i])))])

\* the series a history of appends amounts to: its keys in first-append
\* order, each with the values given to it
SeriesOf(h) ==
    LET ks == FirstSeen(h)
    IN  [i \in 1..Len(ks) |-> [key |-> ks[i], vals |-> ValuesOf(h, ks[i])]]

\* the series names of a block of text, in the order they stand in it: a
\* name is the lexeme before the blank of its entry
EntryKeys(text) ==
    LET at == SelectSeq([i \in 1..Len(text) |-> i],
                        LAMBDA i : i < Len(text) /\ text[i + 1] = " "
                                   /\ text[i] \in Keys)
    IN  [j \in 1..Len(at) |-> text[at[j]]]

\* C2: a log call that meets no I/O error emits, for every series tracked,
\* exactly one entry "<key> <mean>" with the arithmetic mean of the values
\* appended to the key since the previous log, joined by the delimiter and
\* ended by one newline, and writes the same text to the log file; also when
\* every sample is an integer.
C2_FlushEmitsArithmeticMeans ==
    [][(IsCall("log") /\ ret'.status # "OSError")
          => /\ ret'.status = "ok"
             /\ ret'.out = MeanBlock(since, ret'.delimiter)
             /\ log_file' = log_file \o ret'.out \o <<"\n">>
             /\ stdout' = stdout \o ret'.out \o <<"\n">>]_vars

\* C3: a log call that returns leaves no tracked series; when nothing was
\* appended since the previous log that returned it writes exactly an empty
\* line; and what it emits is computed from the values appended since then
\* and from no others: one entry per key appended since then.
C3_FlushClearsSeries ==
    [][Returned("log")
          => /\ infos' = <<>>
             /\ since = <<>>
                   => (ret'.out = <<>> /\ log_file' = log_file \o <<"\n">>)
             /\ Range(EntryKeys(ret'.out)) = {since[i].key : i \in 1..Len(since)}
             /\ Len(EntryKeys(ret'.out)) = Len(FirstSeen(since))
             /\ ret'.out = Join(ret'.delimiter,
                                LogMessages(SeriesOf(since), torch_long).msgs)]_vars

\* a second log in a row has returned, after a first one that emitted a series
C3_Witness ==
    /\ ret.op = "log" /\ ret.status = "ok" /\ ret.out = <<>>
    /\ infos = <<>>
    /\ Len(log_file) >= 2
    /\ log_file[Len(log_file)] = "\n" /\ log_file[Len(log_file) - 1] = "\n"
    /\ \E k \in Keys : k \in Range(log_file)

\* C4: a log call that returns emits the series in the order of the first
\* append to each since the previous log, whatever was appended later.
C4_FirstSeenOrder ==
    [][Returned("log") => EntryKeys(ret'.out) = FirstSeen(since)]_vars

\* "b" was appended first, then "a", then "b" again; the log emitted b, a
C4_Witness ==
    /\ ret.op = "log" /\ ret.status = "ok"
    /\ ret.out = <<"b", " ">> \o Format6f(1500000) \o <<ret.delimiter>>
                    \o <<"a", " ">> \o Format6f(2000000)
    /\ ncalls = 4

\* C5: a write call that returns appends exactly the message and one newline
\* to the log file and changes no tracked series: names, order and values.
C5_WriteLineFrame ==
    [][Returned("write")
          => /\ log_file' = log_file \o ret'.out \o <<"\n">>
             /\ infos' = infos
             /\ since' = since]_vars

\* a write has returned while two series were tracked
C5_Witness ==
    /\ ret.op = "write" /\ ret.status = "ok"
    /\ Len(infos) = 2
    /\ "epoch" \in Range(log_file)

\* C9: constructing truncates; after that every call only extends the file:
\* append leaves it alone, a log that returns adds its one block, a write
\* that returns adds its one line, and a call that raises adds nothing or
\* the text it had already written.  So the file is the concatenation, in
\* call order, of the blocks and the lines.
C9_AppendOnlyLogFile ==
    [][/\ (ret'.op = "init" /\ ~opened /\ opened') => log_file' = <<>>
       /\ IsCall("append") => log_file' = log_file
       /\ Returned("log") => log_file' = log_file \o ret'.out \o <<"\n">>
       /\ Returned("write") => log_file' = log_file \o ret'.out \o <<"\n">>
       /\ ((IsCall("log") \/ IsCall("write")) /\ ret'.status # "ok")
             => \/ log_file' = log_file
                \/ log_file' = log_file \o ret'.out \o <<"\n">>
       /\ opened => IsPrefix(log_file, log_file')]_vars

\* a line, then a block, stand in the file of a constructed Logger, after an
\* append that wrote nothing
C9_Witness ==
    /\ opened
    /\ ret.op = "log" /\ ret.status = "ok" /\ ret.out # <<>>
    /\ log_file = <<"epoch", " ", "1", "\n">> \o ret.out \o <<"\n">>

\* C10: a log call that raises (in mean(), in write() or in flush()) reports
\* the error and leaves every tracked series and value as it was.
C10_FailedFlushKeepsSeries ==
    [][(IsCall("log") /\ ret'.status # "ok")
          => /\ ret'.status \in {"RuntimeError", "OSError"}
             /\ infos' = infos]_vars

\* a log call has raised with a series tracked
C10_Witness ==
    /\ ret.op = "log" /\ ret.status = "OSError"
    /\ infos # <<>>

C10_WitnessMean ==
    /\ ret.op = "log" /\ ret.status = "RuntimeError"
    /\ infos # <<>>

(***************************************************************************)
(* Config: Python values.  A value is a record [t, v]: t its type, v its   *)
(* content.  A float is kept as its repr: the whole part and the digits    *)
(* after the point.  A dict is a sequence of [k, v] in insertion order.    *)
(***************************************************************************)
PyNone == [t |-> "none", v |-> "None"]

PyBool(b) == [t |-> "bool", v |-> b]

PyInt(n) == [t |-> "int", v |-> n]

PyFloat(whole, frac) == [t |-> "float", v |-> [whole |-> whole, frac |-> frac]]

PyStr(s) == [t |-> "str", v |-> s]

PyList(items) == [t |-> "list", v |-> items]

PyTuple(items) == [t |-> "tuple", v |-> items]

PyDict(pairs) == [t |-> "dict", v |-> pairs]

Item(k, v) == [k |-> k, v |-> v]

\* the strings of the model, in the order str.__lt__ gives them
StrOrder == <<"a", "b", "batch_size", "lr", "x", "y">>

StrRank(s) == CHOOSE i \in 1..Len(StrOrder) : StrOrder[i] = s

StrLess(x, y) == StrRank(x) < StrRank(y)

\* sorted(dct.items()): insertion sort by key
RECURSIVE InsertItem(_, _)
InsertItem(sorted, e) ==
    IF sorted = <<>> THEN <<e>>
    ELSE IF StrLess(e.k, Head(sorted).k) THEN <<e>> \o sorted
    ELSE <<Head(sorted)>> \o InsertItem(Tail(sorted), e)

RECURSIVE SortItems(_)
SortItems(pairs) ==
    IF pairs = <<>> THEN <<>>
    ELSE InsertItem(SortItems(SubSeq(pairs, 1, Len(pairs) - 1)),
                    pairs[Len(pairs)])

\* d[k] = v on an insertion-ordered dict
DictSet(pairs, k, v) ==
    IF \E i \in 1..Len(pairs) : pairs[i].k = k
    THEN [i \in 1..Len(pairs) |->
             IF pairs[i].k = k THEN Item(k, v) ELSE pairs[i]]
    ELSE Append(pairs, Item(k, v))

(***************************************************************************)
(* Config: json.dumps(obj, sort_keys=..., indent=2), as lexemes.           *)
(***************************************************************************)
Quote == "\""

\* the JSON lexeme of a str
StrLit(s) == Quote \o s \o Quote

\* A variant that writes Python's own spelling, as str(vars(self)) would: C1
\* must fail under it.
PyReprLiteral(o) ==
    IF o.t = "none" THEN "None" ELSE IF o.v THEN "True" ELSE "False"

\* the JSON lexeme of True, False, None
Literal(o) ==
    IF o.t = "none" THEN "null" ELSE IF o.v THEN "true" ELSE "false"

RECURSIVE Spaces(_)
Spaces(n) == IF n = 0 THEN <<>> ELSE <<" ">> \o Spaces(n - 1)

Indent == 2

\* the newline and indentation json puts before an item at a nesting level
NewlineIndent(level) == <<"\n">> \o Spaces(Indent * level)

RECURSIVE JsonEncode(_, _, _)
JsonEncode(o, sort_keys, level) ==
    CASE o.t \in {"none", "bool"} -> <<Literal(o)>>
      [] o.t = "int" -> Digits(o.v)
      [] o.t = "float" ->
            Digits(o.v.whole) \o <<".">>
               \o [i \in 1..Len(o.v.frac) |-> DigitChars[o.v.frac[i] + 1]]
      [] o.t = "str" -> <<StrLit(o.v)>>
      [] o.t \in {"list", "tuple"} ->
            IF o.v = <<>> THEN <<"[", "]">>
            ELSE <<"[">>
                 \o Flatten([i \in 1..Len(o.v) |->
                        (IF i = 1 THEN <<>> ELSE <<",">>)
                        \o NewlineIndent(level + 1)
                        \o JsonEncode(o.v[i], sort_keys, level + 1)])
                 \o NewlineIndent(level) \o <<"]">>
      [] o.t = "dict" ->
            LET items == IF sort_keys THEN SortItems(o.v) ELSE o.v
            IN  IF items = <<>> THEN <<"{", "}">>
                ELSE <<"{">>
                     \o Flatten([i \in 1..Len(items) |->
                            (IF i = 1 THEN <<>> ELSE <<",">>)
                            \o NewlineIndent(level + 1)
                            \o <<StrLit(items[i].k), ":", " ">>
                            \o JsonEncode(items[i].v, sort_keys, level + 1)])
                     \o NewlineIndent(level) \o <<"}">>

\* json.dump(vars(self), f, sort_keys=True, indent=2), line 119
DumpText(pairs) == JsonEncode(PyDict(pairs), TRUE, 0)

\* A variant of __repr__ without sort_keys: C6 must fail under it.
ReprTextUnsorted(pairs) == JsonEncode(PyDict(pairs), FALSE, 0)

\* json.dumps(vars(self), sort_keys=True, indent=2), line 123
ReprText(pairs) == JsonEncode(PyDict(pairs), TRUE, 0)

(***************************************************************************)
(* Config: json.load, a parser of lexemes.  A result is [ok, val, pos]:    *)
(* whether a value was read, the value, and the place after it.            *)
(***************************************************************************)
ParseFail == [ok |-> FALSE, val |-> PyNone, pos |-> 0]

Parsed(val, pos) == [ok |-> TRUE, val |-> val, pos |-> pos]

Whitespace == {" ", "\n"}

IsDigit(tok) == \E d \in 1..10 : DigitChars[d] = tok

DigitValue(tok) == (CHOOSE d \in 1..10 : DigitChars[d] = tok) - 1

Strings == Range(StrOrder)

IsStrLit(tok) == \E x \in Strings : StrLit(x) = tok

StrValue(tok) == CHOOSE x \in Strings : StrLit(x) = tok

RECURSIVE SkipWhitespace(_, _)
SkipWhitespace(toks, i) ==
    IF i <= Len(toks) /\ toks[i] \in Whitespace
    THEN SkipWhitespace(toks, i + 1) ELSE i

\* the place after the run of digits that starts at i
RECURSIVE DigitsEnd(_, _)
DigitsEnd(toks, i) ==
    IF i <= Len(toks) /\ IsDigit(toks[i]) THEN DigitsEnd(toks, i + 1) ELSE i

\* int() of the digits toks[i..j-1]
RECURSIVE DigitsToInt(_, _, _)
DigitsToInt(toks, i, j) ==
    IF i >= j THEN 0
    ELSE DigitsToInt(toks, i, j - 1) * 10 + DigitValue(toks[j - 1])

ParseNumber(toks, i) ==
    LET j == DigitsEnd(toks, i)
        k == DigitsEnd(toks, j + 1)
    IN  IF j <= Len(toks) /\ toks[j] = "."
        THEN IF k = j + 1 THEN ParseFail
             ELSE Parsed(PyFloat(DigitsToInt(toks, i, j),
                                 [n \in 1..(k - j - 1) |->
                                     DigitValue(toks[j + n])]), k)
        ELSE Parsed(PyInt(DigitsToInt(toks, i, j)), j)

RECURSIVE ParseValue(_, _)
RECURSIVE ParseElements(_, _, _)
RECURSIVE ParseMembers(_, _, _)

\* the elements of an array after "[" or ","; acc holds those read so far
ParseElements(toks, i, acc) ==
    LET e == ParseValue(toks, i)
        j == SkipWhitespace(toks, e.pos)
    IN  IF ~e.ok \/ j > Len(toks) THEN ParseFail
        ELSE IF toks[j] = "," THEN ParseElements(toks, j + 1, Append(acc, e.val))
        ELSE IF toks[j] = "]" THEN Parsed(PyList(Append(acc, e.val)), j + 1)
        ELSE ParseFail

\* the members of an object after "{" or ","; acc holds those read so far
ParseMembers(toks, i, acc) ==
    LET k == SkipWhitespace(toks, i)
        c == SkipWhitespace(toks, k + 1)
        e == ParseValue(toks, c + 1)
        j == SkipWhitespace(toks, e.pos)
    IN  IF k > Len(toks) \/ ~IsStrLit(toks[k]) THEN ParseFail
        ELSE IF c > Len(toks) \/ toks[c] # ":" THEN ParseFail
        ELSE IF ~e.ok \/ j > Len(toks) THEN ParseFail
        ELSE IF toks[j] = ","
             THEN ParseMembers(toks, j + 1, DictSet(acc, StrValue(toks[k]), e.val))
        ELSE IF toks[j] = "}"
             THEN Parsed(PyDict(DictSet(acc, StrValue(toks[k]), e.val)), j + 1)
        ELSE ParseFail

ParseValue(toks, i) ==
    LET s == SkipWhitespace(toks, i)
        n == SkipWhitespace(toks, s + 1)
    IN  IF s > Len(toks) THEN ParseFail
        ELSE IF toks[s] = "null" THEN Parsed(PyNone, s + 1)
        ELSE IF toks[s] = "true" THEN Parsed(PyBool(TRUE), s + 1)
        ELSE IF toks[s] = "false" THEN Parsed(PyBool(FALSE), s + 1)
        ELSE IF IsStrLit(toks[s]) THEN Parsed(PyStr(StrValue(toks[s])), s + 1)
        ELSE IF IsDigit(toks[s]) THEN ParseNumber(toks, s)
        ELSE IF toks[s] = "["
             THEN IF n <= Len(toks) /\ toks[n] = "]"
                  THEN Parsed(PyList(<<>>), n + 1)
                  ELSE ParseElements(toks, s + 1, <<>>)
        ELSE IF toks[s] = "{"
             THEN IF n <= Len(toks) /\ toks[n] = "}"
                  THEN Parsed(PyDict(<<>>), n + 1)
                  ELSE ParseMembers(toks, s + 1, <<>>)
        ELSE ParseFail

\* json.load(f): one value, then nothing but whitespace
JsonLoad(toks) ==
    LET r == ParseValue(toks, 1)
    IN  IF r.ok /\ SkipWhitespace(toks, r.pos) > Len(toks) THEN r ELSE ParseFail

(***************************************************************************)
(* Config: the file system.  A path is the sequence of its names; <<>> is  *)
(* the empty string, which os.path.dirname returns for a bare file name.   *)
(***************************************************************************)
DumpPaths == {<<"config.json">>,
              <<"out", "config.json">>,
              <<"out", "run", "config.json">>,
              <<"newdir", "sub", "config.json">>}

\* {"b": 1, "a": [true, null]}, written by hand on one line
HandText == <<"{", StrLit("b"), ":", " ", "1", ",", " ", StrLit("a"), ":",
              " ", "[", "true", ",", " ", "null", "]", "}", "\n">>

\* a dump cut short: {\n  "a": 1
CutText == <<"{", "\n", " ", " ", StrLit("a"), ":", " ", "1">>

\* {"a": 1,}
CommaText == <<"{", StrLit("a"), ":", " ", "1", ",", "}">>

EmptyText == <<>>

\* []
ListText == <<"[", "]", "\n">>

MalformedTexts == {CutText, CommaText, EmptyText}

InitialDirs == {<<"out">>}

InitialFiles ==
    (<<"out", "hand.json">> :> HandText)
    @@ (<<"out", "cut.json">> :> CutText)
    @@ (<<"out", "comma.json">> :> CommaText)
    @@ (<<"out", "empty.json">> :> EmptyText)
    @@ (<<"out", "list.json">> :> ListText)

LoadPaths == DumpPaths \cup DOMAIN InitialFiles

\* os.path.dirname(filename)
Dirname(filename) == SubSeq(filename, 1, Len(filename) - 1)

\* os.path.exists(path): False for the empty string
PathExists(ds, fs, path) == path # <<>> /\ (path \in ds \/ path \in DOMAIN fs)

\* os.makedirs(path): the empty string is no path; a name on the way that
\* is a regular file stops it; else every missing directory is created
Makedirs(ds, fs, path) ==
    LET prefixes == {SubSeq(path, 1, n) : n \in 1..Len(path)}
    IN  IF path = <<>> THEN [raised |-> "FileNotFoundError", dirs |-> ds]
        ELSE IF \E q \in prefixes : q \in DOMAIN fs
             THEN [raised |-> "NotADirectoryError", dirs |-> ds]
        ELSE [raised |-> "", dirs |-> ds \cup prefixes]

\* open(filename, 'w'): needs a directory to hold the name, and the name not
\* to be a directory
OpenForWrite(ds, fs, filename) ==
    IF filename \in ds THEN "IsADirectoryError"
    ELSE IF Dirname(filename) \in DOMAIN fs THEN "NotADirectoryError"
    ELSE IF Dirname(filename) # <<>> /\ Dirname(filename) \notin ds
         THEN "FileNotFoundError"
    ELSE ""

\* open(filename, 'r')
OpenForRead(ds, fs, filename) ==
    IF filename \in DOMAIN fs THEN ""
    ELSE IF filename \in ds THEN "IsADirectoryError"
    ELSE "FileNotFoundError"

\* str(dirname), as print() shows it
PathStr(path) == Join("/", [i \in 1..Len(path) |-> <<path[i]>>])

(***************************************************************************)
(* Config: the operations.                                                 *)
(***************************************************************************)
\* self.__dict__.update(attrs) on a new object: a dict gives its items; any
\* other iterable must yield pairs; a non-iterable is a TypeError
DictUpdate(o) ==
    LET RECURSIVE Fold(_, _)
        Fold(items, acc) ==
            IF items = <<>> THEN acc
            ELSE Fold(Tail(items),
                      DictSet(acc, Head(items).v[1].v, Head(items).v[2]))
    IN  CASE o.t = "dict" -> [raised |-> "", pairs |-> o.v]
          [] o.t \in {"list", "tuple"} ->
                IF \A i \in 1..Len(o.v) :
                      o.v[i].t \in {"list", "tuple"} /\ Len(o.v[i].v) = 2
                THEN [raised |-> "", pairs |-> Fold(o.v, <<>>)]
                ELSE [raised |-> "TypeError", pairs |-> <<>>]
          [] o.t = "str" ->
                IF o.v = "" THEN [raised |-> "", pairs |-> <<>>]
                ELSE [raised |-> "ValueError", pairs |-> <<>>]
          [] OTHER -> [raised |-> "TypeError", pairs |-> <<>>]

NoStore == [bound |-> FALSE, attrs |-> <<>>]

Store(pairs) == [bound |-> TRUE, attrs |-> pairs]

\* A variant of load that catches every error and returns an empty store: C8
\* must fail under it.
LoadSwallowing(ds, fs, filename) ==
    LET opening == OpenForRead(ds, fs, filename)
        parsed  == JsonLoad(fs[filename])
        made    == DictUpdate(parsed.val)
    IN  IF opening # "" \/ ~parsed.ok \/ made.raised # ""
        THEN [status |-> "ok", store |-> Store(<<>>)]
        ELSE [status |-> "ok", store |-> Store(made.pairs)]

\* Config.load(filename): open, json.load, cls(attrs); the first error ends it
LoadResult(ds, fs, filename) ==
    LET opening == OpenForRead(ds, fs, filename)
        parsed  == JsonLoad(fs[filename])
        made    == DictUpdate(parsed.val)
    IN  IF opening # "" THEN [status |-> opening, store |-> NoStore]
        ELSE IF ~parsed.ok THEN [status |-> "JSONDecodeError", store |-> NoStore]
        ELSE IF made.raised # "" THEN [status |-> made.raised, store |-> NoStore]
        ELSE [status |-> "ok", store |-> Store(made.pairs)]

\* the mappings a store is constructed from, in the order their keys are given
Mappings ==
    { <<>>,
      <<Item("b", PyInt(1)), Item("a", PyInt(2))>>,
      <<Item("lr", PyFloat(0, <<0, 0, 1>>)), Item("batch_size", PyInt(32))>>,
      <<Item("b", PyList(<<PyInt(1), PyStr("x")>>)), Item("a", PyNone)>>,
      <<Item("y", PyBool(TRUE)),
        Item("a", PyDict(<<Item("y", PyInt(1)), Item("x", PyBool(FALSE))>>))>>,
      <<Item("a", PyTuple(<<PyInt(1), PyInt(2)>>))>>,
      <<Item("x", PyList(<<>>)), Item("b", PyList(<<PyTuple(<<PyInt(10)>>)>>))>> }

ConfigInit ==
    /\ attrs \in {DictUpdate(PyDict(m)).pairs : m \in Mappings}
    /\ dirs = InitialDirs
    /\ files = InitialFiles
    /\ loaded = NoStore
    /\ stdout = <<>>
    /\ ncalls = 0
    /\ ret = NoCall
    /\ opened = FALSE
    /\ log_file = <<>>
    /\ infos = <<>>
    /\ since = <<>>
    /\ torch_long = "raise"
    /\ io_faults = 0

\* Config.dump(filename)
ConfigDump(filename) ==
    LET dirname == Dirname(filename)
        made    == IF PathExists(dirs, files, dirname)
                   THEN [raised |-> "", dirs |-> dirs]
                   ELSE Makedirs(dirs, files, dirname)
        opening == OpenForWrite(made.dirs, files, filename)
        status  == IF made.raised # "" THEN made.raised
                   ELSE IF opening # "" THEN opening ELSE "ok"
    IN  /\ ncalls < MaxConfigCalls
        /\ dirs' = made.dirs
        /\ stdout' = IF made.raised # "" THEN stdout
                     ELSE stdout \o <<"Results will be stored in:", " ">>
                             \o PathStr(dirname) \o <<"\n">>
        /\ files' = IF status = "ok"
                    THEN (filename :> (DumpText(attrs) \o <<"\n">>)) @@ files
                    ELSE files
        /\ ncalls' = ncalls + 1
        /\ ret' = [Call("dump", status, <<>>) EXCEPT !.path = filename]
        /\ UNCHANGED <<attrs, loaded>>
        /\ UNCHANGED <<opened, log_file, infos, since, torch_long, io_faults>>

\* Config.load(filename)
ConfigLoad(filename) ==
    LET r == LoadResult(dirs, files, filename)
    IN  /\ ncalls < MaxConfigCalls
        /\ loaded' = r.store
        /\ ncalls' = ncalls + 1
        /\ ret' = [Call("load", r.status, <<>>) EXCEPT !.path = filename]
        /\ UNCHANGED <<attrs, dirs, files, stdout>>
        /\ UNCHANGED <<opened, log_file, infos, since, torch_long, io_faults>>

\* Config.__repr__()
ConfigRepr ==
    /\ ncalls < MaxConfigCalls
    /\ ncalls' = ncalls + 1
    /\ ret' = Call("repr", "ok", ReprText(attrs))
    /\ UNCHANGED <<attrs, dirs, files, loaded, stdout>>
    /\ UNCHANGED <<opened, log_file, infos, since, torch_long, io_faults>>

DoDump == \E filename \in DumpPaths : ConfigDump(filename)

DoLoad == \E filename \in LoadPaths : ConfigLoad(filename)

ConfigNext == DoDump \/ DoLoad \/ ConfigRepr

SpecConfig == ConfigInit /\ [][ConfigNext]_vars

(***************************************************************************)
(* Config: what the claims speak of.                                       *)
(***************************************************************************)
\* a value with the order of its dicts forgotten: Python's == on dicts
RECURSIVE Unordered(_)
Unordered(o) ==
    CASE o.t = "dict" ->
            [t |-> "dict",
             v |-> {Item(o.v[i].k, Unordered(o.v[i].v)) : i \in 1..Len(o.v)}]
      [] o.t \in {"list", "tuple"} ->
            [t |-> o.t, v |-> [i \in 1..Len(o.v) |-> Unordered(o.v[i])]]
      [] OTHER -> o

\* two attribute mappings with the same keys and the same value for each
SameMapping(a, b) == Unordered(PyDict(a)) = Unordered(PyDict(b))

\* a value made of the types JSON itself has: no tuple in it
RECURSIVE JsonNative(_)
JsonNative(o) ==
    CASE o.t = "tuple" -> FALSE
      [] o.t = "list" -> \A i \in 1..Len(o.v) : JsonNative(o.v[i])
      [] o.t = "dict" -> \A i \in 1..Len(o.v) : JsonNative(o.v[i].v)
      [] OTHER -> TRUE

\* a load of the path the call before it dumped to
LoadAfterDump ==
    /\ ret.op = "dump" /\ ret.status = "ok"
    /\ IsCall("load") /\ ret'.path = ret.path

\* C1 as stated: for any JSON-serializable mapping, a load of what dump wrote
\* returns a store whose mapping equals the dumped one.
C1_RoundTripAnySerializable ==
    [][LoadAfterDump
          => /\ ret'.status = "ok"
             /\ loaded'.bound
             /\ SameMapping(loaded'.attrs, attrs)]_vars

\* C1, amended: the same for a mapping whose values are of JSON's own types
\* (None, bool, int, float, str, list, str-keyed dict; no tuple).
C1_RoundTripJsonNative ==
    [][(LoadAfterDump /\ JsonNative(PyDict(attrs)))
          => /\ ret'.status = "ok"
             /\ loaded'.bound
             /\ SameMapping(loaded'.attrs, attrs)]_vars

\* a store with a nested dict, given with its keys out of order, was dumped
\* and loaded back
C1_Witness ==
    /\ ret.op = "load" /\ ret.status = "ok" /\ ret.path \in DumpPaths
    /\ loaded.bound
    /\ SameMapping(loaded.attrs, attrs)
    /\ loaded.attrs # attrs
    /\ \E i \in 1..Len(attrs) : attrs[i].v.t = "dict"

\* the keys of the outermost object of a text json wrote with indent 2, in
\* the order they stand in it
TopLevelKeys(text) ==
    LET at == SelectSeq([i \in 1..Len(text) |-> i],
                        LAMBDA i : /\ i >= 4 /\ i < Len(text)
                                   /\ text[i - 3] = "\n"
                                   /\ text[i - 2] = " " /\ text[i - 1] = " "
                                   /\ IsStrLit(text[i])
                                   /\ text[i + 1] = ":")
    IN  [j \in 1..Len(at) |-> StrValue(text[at[j]])]

Ascending(ks) == \A j \in 1..(Len(ks) - 1) : StrLess(ks[j], ks[j + 1])

AttrKeys == {attrs[i].k : i \in 1..Len(attrs)}

\* C6: repr returns the keys in ascending order, all of them, whatever order
\* the store holds them in; two calls in a row return the same text; the text
\* is what dump writes before its final newline; neither call changes the
\* store.
C6_ReprSortedAndAgreesWithDump ==
    [][/\ IsCall("repr")
             => /\ attrs' = attrs
                /\ Ascending(TopLevelKeys(ret'.out))
                /\ Range(TopLevelKeys(ret'.out)) = AttrKeys
                /\ Len(TopLevelKeys(ret'.out)) = Len(attrs)
       /\ (ret.op = "repr" /\ IsCall("repr")) => ret'.out = ret.out
       /\ (ret.op = "repr" /\ Returned("dump"))
             => files'[ret'.path] = ret.out \o <<"\n">>
       /\ (ret.op = "dump" /\ ret.status = "ok" /\ IsCall("repr"))
             => files[ret.path] = ret'.out \o <<"\n">>
       /\ IsCall("dump") => attrs' = attrs
       /\ Returned("dump") => Ascending(TopLevelKeys(files'[ret'.path]))]_vars

\* a store that holds "b" before "a" was dumped, and repr returned the text
\* of the file
C6_Witness ==
    /\ ret.op = "repr" /\ ret.status = "ok"
    /\ Len(attrs) = 2 /\ StrLess(attrs[2].k, attrs[1].k)
    /\ TopLevelKeys(ret.out) = <<attrs[2].k, attrs[1].k>>
    /\ \E p \in DumpPaths : p \in DOMAIN files /\ files[p] = ret.out \o <<"\n">>

\* a destination nothing stands in the way of: no name on the way to it is a
\* regular file and the path itself is no directory
Writable(ds, fs, path) ==
    /\ path \notin ds
    /\ \A n \in 1..(Len(path) - 1) : SubSeq(path, 1, n) \notin DOMAIN fs

\* C7: dump to any writable path succeeds, with the parent directories
\* present, missing at one or several levels, or with no directory part at
\* all; afterwards the directories exist and load reads the file.
C7_DumpCreatesParents ==
    [][(IsCall("dump") /\ Writable(dirs, files, ret'.path))
          => /\ ret'.status = "ok"
             /\ ret'.path \in DOMAIN files'
             /\ LoadResult(dirs', files', ret'.path).status = "ok"]_vars

\* the same for the paths that have a directory part
C7_DumpWithDirectoryPart ==
    [][(IsCall("dump") /\ Writable(dirs, files, ret'.path)
           /\ Dirname(ret'.path) # <<>>)
          => /\ ret'.status = "ok"
             /\ ret'.path \in DOMAIN files'
             /\ \A n \in 1..(Len(ret'.path) - 1) :
                    SubSeq(ret'.path, 1, n) \in dirs'
             /\ LoadResult(dirs', files', ret'.path).status = "ok"]_vars

C8_WitnessMissing ==
    /\ ret.op = "load" /\ ret.status = "FileNotFoundError"
    /\ ret.path \notin DOMAIN files
    /\ loaded = NoStore

====
